---- MODULE Spec2Model ----
(***************************************************************************)
(* Model of the FlamesBlue Electronics product-catalog API                 *)
(* (src/backend/main.py): the startup seed and the read handlers over the  *)
(* "product" collection of the document store.                            *)
(*                                                                         *)
(* Strings the code inspects character by character (product ids, titles, *)
(* search queries) are sequences of one-character strings.  Category names *)
(* are only compared for equality and are plain strings.  Python's         *)
(* Optional[str] is a sequence of length 0 (None) or 1.                    *)
(***************************************************************************)
EXTENDS Integers, Sequences, FiniteSets, TLC

\* ---------------------------------------------------------------- bounds
\* Largest number of documents the product collection holds before startup.
MaxPre == 3
\* Largest number of process starts (each runs the startup seed once).
MaxRuns == 2

\* ------------------------------------------------------ program constants
\* Query(20, ge=1, le=100) of list_products and search_products
ListLimitMax == 100
\* Query(10, ge=1, le=50) of featured_products
FeaturedLimitMax == 50
FeaturedLimitDefault == 10
\* Query(4, ge=1, le=12) of recommendations
RecLimitMax == 12
\* a bson ObjectId is 12 bytes, printed as 24 hexadecimal digits
OidHexLen == 24
\* value of the first ObjectId the store hands out in the model
FirstOid == 9

\* ------------------------------------------------------------- utilities
Min(a, b) == IF a <= b THEN a ELSE b

Take(s, n) == SubSeq(s, 1, Min(n, Len(s)))

UpperChars == <<"A","B","C","D","E","F","G","H","I","J","K","L","M",
                "N","O","P","Q","R","S","T","U","V","W","X","Y","Z">>
LowerChars == <<"a","b","c","d","e","f","g","h","i","j","k","l","m",
                "n","o","p","q","r","s","t","u","v","w","x","y","z">>

\* str.lower() on one character
Lower(c) ==
    IF \E i \in 1..Len(UpperChars) : UpperChars[i] = c
    THEN LowerChars[CHOOSE i \in 1..Len(UpperChars) : UpperChars[i] = c]
    ELSE c

\* str.upper() on one character
Upper(c) ==
    IF \E i \in 1..Len(LowerChars) : LowerChars[i] = c
    THEN UpperChars[CHOOSE i \in 1..Len(LowerChars) : LowerChars[i] = c]
    ELSE c

UpperStr(s) == [i \in 1..Len(s) |-> Upper(s[i])]

HexDigits == <<"0","1","2","3","4","5","6","7","8","9","a","b","c","d","e","f">>

IsHex(c) == \E d \in 1..16 : HexDigits[d] = Lower(c)

HexVal(c) == (CHOOSE d \in 1..16 : HexDigits[d] = Lower(c)) - 1

\* bson: ObjectId(s) accepts exactly the strings of 24 hexadecimal digits
\* (either case) and raises InvalidId on every other string.
IsValidObjectId(s) == Len(s) = OidHexLen /\ \A i \in 1..Len(s) : IsHex(s[i])

\* ObjectId(s) for a valid s: the 12-byte value, as a number
RECURSIVE HexToNat(_)
HexToNat(s) ==
    IF s = <<>> THEN 0
    ELSE 16 * HexToNat(SubSeq(s, 1, Len(s) - 1)) + HexVal(s[Len(s)])

ObjectId(s) == HexToNat(s)

\* str(oid): 24 lower-case hexadecimal digits
RECURSIVE HexOf(_, _)
HexOf(n, w) ==
    IF w = 0 THEN <<>>
    ELSE Append(HexOf(n \div 16, w - 1), HexDigits[(n % 16) + 1])

OidStr(oid) == HexOf(oid, OidHexLen)

\* ------------------------------------------------------------- seed data
Title_NovaXPro == <<"F","l","a","m","e","s","B","l","u","e"," ","N","o","v","a"," ","X"," ","P","r","o">>
Title_AirLiteCase == <<"F","l","a","m","e","s","B","l","u","e"," ","A","i","r","L","i","t","e"," ","C","a","s","e">>
Title_Atlas15 == <<"F","l","a","m","e","s","B","l","u","e"," ","A","t","l","a","s"," ","1","5">>
Title_ArcBuds == <<"F","l","a","m","e","s","B","l","u","e"," ","A","r","c"," ","B","u","d","s">>

SAMPLE_PRODUCTS == <<
    [title |-> Title_NovaXPro,    category |-> "Phones",      featured |-> TRUE],
    [title |-> Title_AirLiteCase, category |-> "Phone Cases", featured |-> TRUE],
    [title |-> Title_Atlas15,     category |-> "Laptops",     featured |-> TRUE],
    [title |-> Title_ArcBuds,     category |-> "Accessories", featured |-> FALSE] >>

\* Products a store may already hold when the process starts (written by an
\* earlier deployment); they share categories with the samples.
Title_GripCase == <<"F","l","a","m","e","s","B","l","u","e"," ","G","r","i","p"," ","C","a","s","e">>
Title_NovaMini == <<"F","l","a","m","e","s","B","l","u","e"," ","N","o","v","a"," ","M","i","n","i">>

StoredBefore == {
    [title |-> Title_GripCase, category |-> "Phone Cases", featured |-> FALSE],
    [title |-> Title_NovaMini, category |-> "Phones",      featured |-> TRUE] }

\* ---------------------------------------------------------- the store
\* insert_one: the store assigns the _id and appends the document
InsertOne(coll, p, oid) ==
    Append(coll, [_id |-> oid, title |-> p.title, category |-> p.category,
                  featured |-> p.featured])

\* create_document(collection, document): inserts one document
create_document(coll, p, oid) == InsertOne(coll, p, oid)

\* the first n documents of ps inserted with consecutive ids from oid on
RECURSIVE InsertAll(_, _, _, _)
InsertAll(coll, ps, n, oid) ==
    IF n = 0 THEN coll
    ELSE create_document(InsertAll(coll, ps, n - 1, oid), ps[n], oid + n - 1)

\* regex search with option "i" for a pattern of literal characters and the
\* metacharacter "." (any character): unanchored, so it matches when the
\* pattern matches at some position; the empty pattern matches every string.
RegexMatchAt(pat, s, k) ==
    /\ k + Len(pat) - 1 <= Len(s)
    /\ \A j \in 1..Len(pat) :
          pat[j] = "." \/ Lower(pat[j]) = Lower(s[k + j - 1])

RegexSearch(pat, s) == \E k \in 1..(Len(s) + 1) : RegexMatchAt(pat, s, k)

\* filters the handlers build
FilterAll == [kind |-> "all"]
FilterCategory(c) == [kind |-> "category", value |-> c]
FilterFeatured == [kind |-> "featured"]
FilterTitleRegex(q) == [kind |-> "title_regex", value |-> q]
FilterCategoryNotId(c, oid) == [kind |-> "category_ne_id", value |-> c, oid |-> oid]

Matches(d, f) ==
    CASE f.kind = "all" -> TRUE
      [] f.kind = "category" -> d.category = f.value
      [] f.kind = "featured" -> d.featured = TRUE
      [] f.kind = "title_regex" -> RegexSearch(f.value, d.title)
      [] f.kind = "category_ne_id" -> d.category = f.value /\ d._id # f.oid

\* collection.find(filter).limit(limit), in store order
Find(coll, f, limit) == Take(SelectSeq(coll, LAMBDA d : Matches(d, f)), limit)

\* get_documents(collection, filter, limit): up to limit matching documents;
\* an empty result when the store is unavailable
get_documents(dbv, coll, f, limit) ==
    IF ~dbv THEN <<>> ELSE Find(coll, f, limit)

\* collection.find_one({"_id": oid}): the document, as a sequence of length
\* 0 (None) or 1
find_one(coll, oid) == Take(SelectSeq(coll, LAMBDA d : d._id = oid), 1)

\* serialize_doc: the store's _id becomes the public id string
serialize_doc(d) ==
    [id |-> OidStr(d._id), title |-> d.title, category |-> d.category,
     featured |-> d.featured]

SerializeAll(docs) == [i \in 1..Len(docs) |-> serialize_doc(docs[i])]

\* ------------------------------------------------------------- state
VARIABLES
    db,        \* FALSE: db is None (store unreachable at import); TRUE: a handle
    product,   \* the "product" collection, in store order
    nextOid,   \* the next _id the store assigns
    phase,     \* "startup" (before the seed has run) or "serving"
    runs,      \* number of completed startup seeds
    resp       \* outcome of the operation in flight, or Idle

vars == <<db, product, nextOid, phase, runs, resp>>

Idle == [op |-> "idle"]

\* ------------------------------------------------------ startup seed
\* The body of the try block.  countFails: count_documents raises; k: number
\* of create_document calls that succeed before one raises
\* (Len(SAMPLE_PRODUCTS): none raises).  exc: an exception left the block.
SeedTry(coll, oid, countFails, k) ==
    IF countFails THEN
        [product |-> coll, nextOid |-> oid, exc |-> TRUE, queries |-> 1]
    ELSE IF Len(coll) = 0 THEN
        [product |-> InsertAll(coll, SAMPLE_PRODUCTS, k, oid),
         nextOid |-> oid + k, exc |-> (k < Len(SAMPLE_PRODUCTS)),
         queries |-> 1 + Min(k + 1, Len(SAMPLE_PRODUCTS))]
    ELSE
        [product |-> coll, nextOid |-> oid, exc |-> FALSE, queries |-> 1]

\* a seed whose failures reach the caller
seed_database_if_empty_NoExcept(dbv, coll, oid, countFails, k) ==
    IF ~dbv THEN
        [product |-> coll, nextOid |-> oid, raised |-> FALSE, queries |-> 0]
    ELSE LET r == SeedTry(coll, oid, countFails, k) IN
         [product |-> r.product, nextOid |-> r.nextOid, raised |-> r.exc,
          queries |-> r.queries]

\* a seed that inserts the samples whatever the collection holds
seed_database_if_empty_NoCountCheck(dbv, coll, oid, countFails, k) ==
    IF ~dbv \/ countFails THEN
        [product |-> coll, nextOid |-> oid, raised |-> FALSE,
         queries |-> IF dbv THEN 1 ELSE 0]
    ELSE [product |-> InsertAll(coll, SAMPLE_PRODUCTS, k, oid),
          nextOid |-> oid + k, raised |-> FALSE,
          queries |-> 1 + Min(k + 1, Len(SAMPLE_PRODUCTS))]

\* "except Exception: pass" swallows whatever the try block raised
seed_database_if_empty(dbv, coll, oid, countFails, k) ==
    IF ~dbv THEN
        [product |-> coll, nextOid |-> oid, raised |-> FALSE, queries |-> 0]
    ELSE LET r == SeedTry(coll, oid, countFails, k) IN
         [product |-> r.product, nextOid |-> r.nextOid, raised |-> FALSE,
          queries |-> r.queries]

SeedRun ==
    /\ phase = "startup"
    /\ \E countFails \in BOOLEAN, k \in 0..Len(SAMPLE_PRODUCTS) :
          LET r == seed_database_if_empty(db, product, nextOid, countFails, k) IN
          /\ product' = r.product
          /\ nextOid' = r.nextOid
          /\ resp' = [op |-> "seed", before |-> Len(product),
                      raised |-> r.raised, queries |-> r.queries]
    /\ phase' = "serving"
    /\ runs' = runs + 1
    /\ UNCHANGED db

\* ------------------------------------------------------------ handlers
\* Every handler yields [status, body, queries, failed]: the HTTP status, the
\* response body (a sequence of serialized products), the number of store
\* calls it issued and whether one of them raised.
Reply(status, body, queries, failed) ==
    [status |-> status, body |-> body, queries |-> queries, failed |-> failed]

\* truth value of an Optional[str]: None and "" are false
Truthy(opt) == opt # <<>> /\ opt[1] # ""

\* a listing that forgets to pass the limit on
list_products_NoLimit(dbv, coll, category, limit, fail) ==
    IF limit < 1 \/ limit > ListLimitMax THEN Reply(422, <<>>, 0, FALSE)
    ELSE LET filter_dict == IF Truthy(category) THEN FilterCategory(category[1])
                            ELSE FilterAll
         IN  IF dbv /\ fail THEN Reply(500, <<>>, 1, TRUE)
             ELSE Reply(200, SerializeAll(get_documents(dbv, coll, filter_dict, Len(coll))),
                        IF dbv THEN 1 ELSE 0, FALSE)

\* GET /api/products; fail: the store call inside get_documents raises
list_products(dbv, coll, category, limit, fail) ==
    IF limit < 1 \/ limit > ListLimitMax THEN Reply(422, <<>>, 0, FALSE)
    ELSE LET filter_dict == IF Truthy(category) THEN FilterCategory(category[1])
                            ELSE FilterAll
         IN  IF dbv /\ fail THEN Reply(500, <<>>, 1, TRUE)
             ELSE Reply(200, SerializeAll(get_documents(dbv, coll, filter_dict, limit)),
                        IF dbv THEN 1 ELSE 0, FALSE)

\* a featured listing that drops the featured filter
featured_products_NoFilter(dbv, coll, limit, fail) ==
    IF limit < 1 \/ limit > FeaturedLimitMax THEN Reply(422, <<>>, 0, FALSE)
    ELSE IF dbv /\ fail THEN Reply(500, <<>>, 1, TRUE)
    ELSE Reply(200, SerializeAll(get_documents(dbv, coll, FilterAll, limit)),
               IF dbv THEN 1 ELSE 0, FALSE)

\* GET /api/products/featured
featured_products(dbv, coll, limit, fail) ==
    IF limit < 1 \/ limit > FeaturedLimitMax THEN Reply(422, <<>>, 0, FALSE)
    ELSE IF dbv /\ fail THEN Reply(500, <<>>, 1, TRUE)
    ELSE Reply(200, SerializeAll(get_documents(dbv, coll, FilterFeatured, limit)),
               IF dbv THEN 1 ELSE 0, FALSE)

\* a lookup whose except clause answers "not found"
get_product_InvalidIsNotFound(dbv, coll, product_id, fail) ==
    IF ~dbv THEN Reply(503, <<>>, 0, FALSE)
    ELSE IF ~IsValidObjectId(product_id) THEN Reply(404, <<>>, 0, FALSE)
    ELSE IF fail THEN Reply(404, <<>>, 1, TRUE)
    ELSE LET doc == find_one(coll, ObjectId(product_id)) IN
         IF doc = <<>> THEN Reply(404, <<>>, 1, FALSE)
         ELSE Reply(200, SerializeAll(doc), 1, FALSE)

\* a lookup that never tests the result of find_one
get_product_NoMissingCheck(dbv, coll, product_id, fail) ==
    IF ~dbv THEN Reply(503, <<>>, 0, FALSE)
    ELSE IF ~IsValidObjectId(product_id) THEN Reply(400, <<>>, 0, FALSE)
    ELSE IF fail THEN Reply(400, <<>>, 1, TRUE)
    ELSE Reply(200, SerializeAll(find_one(coll, ObjectId(product_id))), 1, FALSE)

\* GET /api/products/{product_id}; fail: find_one raises
get_product(dbv, coll, product_id, fail) ==
    IF ~dbv THEN Reply(503, <<>>, 0, FALSE)
    ELSE IF ~IsValidObjectId(product_id) THEN Reply(400, <<>>, 0, FALSE)
    ELSE IF fail THEN Reply(400, <<>>, 1, TRUE)
    ELSE LET doc == find_one(coll, ObjectId(product_id)) IN
         IF doc = <<>> THEN Reply(404, <<>>, 1, FALSE)
         ELSE Reply(200, SerializeAll(doc), 1, FALSE)

\* GET /api/search
search_products(dbv, coll, q, limit, fail) ==
    IF limit < 1 \/ limit > ListLimitMax THEN Reply(422, <<>>, 0, FALSE)
    ELSE IF q = <<>> THEN Reply(200, <<>>, 0, FALSE)
    ELSE IF dbv /\ fail THEN Reply(500, <<>>, 1, TRUE)
    ELSE Reply(200, SerializeAll(get_documents(dbv, coll, FilterTitleRegex(q), limit)),
               IF dbv THEN 1 ELSE 0, FALSE)

\* recommendations whose category query keeps the product itself
recommendations_NoExclude(dbv, coll, product_id, limit, fail1, fail2) ==
    IF limit < 1 \/ limit > RecLimitMax THEN Reply(422, <<>>, 0, FALSE)
    ELSE IF ~dbv THEN Reply(200, <<>>, 0, FALSE)
    ELSE IF ~IsValidObjectId(product_id) THEN Reply(200, <<>>, 0, FALSE)
    ELSE IF fail1 THEN Reply(200, <<>>, 1, TRUE)
    ELSE LET doc == find_one(coll, ObjectId(product_id)) IN
         IF doc = <<>> THEN Reply(200, <<>>, 1, FALSE)
         ELSE IF fail2 THEN Reply(500, <<>>, 2, TRUE)
         ELSE Reply(200, SerializeAll(Find(coll, FilterCategory(doc[1].category), limit)),
                    2, FALSE)

\* GET /api/recommendations/{product_id}; fail1: find_one raises; fail2: the
\* find of the category (or the iteration of its cursor) raises
recommendations(dbv, coll, product_id, limit, fail1, fail2) ==
    IF limit < 1 \/ limit > RecLimitMax THEN Reply(422, <<>>, 0, FALSE)
    ELSE IF ~dbv THEN Reply(200, <<>>, 0, FALSE)
    ELSE IF ~IsValidObjectId(product_id) THEN Reply(200, <<>>, 0, FALSE)
    ELSE IF fail1 THEN Reply(200, <<>>, 1, TRUE)
    ELSE LET doc == find_one(coll, ObjectId(product_id)) IN
         IF doc = <<>> THEN Reply(200, <<>>, 1, FALSE)
         ELSE IF fail2 THEN Reply(500, <<>>, 2, TRUE)
         ELSE LET category == doc[1].category
                  docs == Find(coll, FilterCategoryNotId(category, doc[1]._id), limit)
              IN  Reply(200, SerializeAll(docs), 2, FALSE)

\* ------------------------------------------------------ request inputs
Max(a, b) == IF a >= b THEN a ELSE b

\* ids the store has assigned or may assign, and one it never assigns
OidInputs == FirstOid..(FirstOid + Max(MaxPre, Len(SAMPLE_PRODUCTS)))

MalformedIds == {
    <<"x","y","z">>,
    SubSeq(OidStr(FirstOid), 1, OidHexLen - 1),
    Append(OidStr(FirstOid), "0"),
    Append(SubSeq(OidStr(FirstOid), 1, OidHexLen - 1), "g") }

IdInputs ==
    {OidStr(n) : n \in OidInputs} \cup {UpperStr(OidStr(n)) : n \in OidInputs}
        \cup MalformedIds

CategoryInputs == {<<>>, <<"">>, <<"Phones">>, <<"Phone Cases">>, <<"Tablets">>}

QueryInputs == {
    <<>>,
    <<"n","o","v","a">>,
    <<"N","O","V","A">>,
    <<"n",".","v","a">>,
    <<".">>,
    <<"c","a","s","e">>,
    <<"z","z","z">> }

Ready == phase = "serving" /\ resp = Idle

Frame == UNCHANGED <<db, product, nextOid, phase, runs>>

ListProducts ==
    /\ Ready
    /\ \E category \in CategoryInputs, limit \in 0..(ListLimitMax + 1), fail \in BOOLEAN :
          LET r == list_products(db, product, category, limit, fail) IN
          resp' = [op |-> "list_products", category |-> category, limit |-> limit,
                   status |-> r.status, body |-> r.body, queries |-> r.queries,
                   failed |-> r.failed]
    /\ Frame

FeaturedProducts ==
    /\ Ready
    /\ \E limit \in 0..(FeaturedLimitMax + 1), fail \in BOOLEAN :
          LET r == featured_products(db, product, limit, fail) IN
          resp' = [op |-> "featured_products", limit |-> limit,
                   status |-> r.status, body |-> r.body, queries |-> r.queries,
                   failed |-> r.failed]
    /\ Frame

GetProduct ==
    /\ Ready
    /\ \E product_id \in IdInputs, fail \in BOOLEAN :
          LET r == get_product(db, product, product_id, fail) IN
          resp' = [op |-> "get_product", product_id |-> product_id,
                   status |-> r.status, body |-> r.body, queries |-> r.queries,
                   failed |-> r.failed]
    /\ Frame

SearchProducts ==
    /\ Ready
    /\ \E q \in QueryInputs, limit \in 0..(ListLimitMax + 1), fail \in BOOLEAN :
          LET r == search_products(db, product, q, limit, fail) IN
          resp' = [op |-> "search_products", q |-> q, limit |-> limit,
                   status |-> r.status, body |-> r.body, queries |-> r.queries,
                   failed |-> r.failed]
    /\ Frame

Recommendations ==
    /\ Ready
    /\ \E product_id \in IdInputs, limit \in 0..(RecLimitMax + 1),
          fail1 \in BOOLEAN, fail2 \in BOOLEAN :
          LET r == recommendations(db, product, product_id, limit, fail1, fail2) IN
          resp' = [op |-> "recommendations", product_id |-> product_id, limit |-> limit,
                   status |-> r.status, body |-> r.body, queries |-> r.queries,
                   failed |-> r.failed]
    /\ Frame

\* the response leaves the process
Deliver ==
    /\ resp # Idle
    /\ resp' = Idle
    /\ UNCHANGED <<db, product, nextOid, phase, runs>>

\* the process is started again: the module is imported afresh, the store
\* is reachable or not, and the startup event fires once more
Restart ==
    /\ phase = "serving"
    /\ resp = Idle
    /\ runs < MaxRuns
    /\ phase' = "startup"
    /\ db' \in BOOLEAN
    /\ UNCHANGED <<product, nextOid, runs, resp>>

\* ------------------------------------------------------------- Init
RECURSIVE SeqsUpTo(_, _)
SeqsUpTo(S, n) ==
    IF n = 0 THEN {<<>>}
    ELSE LET shorter == SeqsUpTo(S, n - 1) IN
         shorter \cup {Append(s, x) : s \in shorter, x \in S}

Init ==
    /\ db \in BOOLEAN
    /\ \E pre \in SeqsUpTo(StoredBefore, MaxPre) :
          /\ product = InsertAll(<<>>, pre, Len(pre), FirstOid)
          /\ nextOid = FirstOid + Len(pre)
    /\ phase = "startup"
    /\ runs = 0
    /\ resp = Idle

Next ==
    \/ SeedRun
    \/ ListProducts
    \/ FeaturedProducts
    \/ GetProduct
    \/ SearchProducts
    \/ Recommendations
    \/ Deliver
    \/ Restart

Spec == Init /\ [][Next]_vars
\* ------------------------------------------------------------ properties
ValidLimit(max) == resp.limit >= 1 /\ resp.limit <= max

\* the stored product a well-formed id names, as a sequence of length 0 or 1
Stored(product_id) == SelectSeq(product, LAMBDA d : d._id = ObjectId(product_id))

\* the collection is exactly the four sample records, as the seed inserts them
Seeded ==
    /\ Len(product) = Len(SAMPLE_PRODUCTS)
    /\ \A i \in 1..Len(product) :
          /\ product[i].title = SAMPLE_PRODUCTS[i].title
          /\ product[i].category = SAMPLE_PRODUCTS[i].category
          /\ product[i].featured = SAMPLE_PRODUCTS[i].featured

Titles(body) == {body[i].title : i \in 1..Len(body)}

\* s contains q as a substring, ignoring case
Contains(s, q) ==
    \E k \in 1..(Len(s) + 1) :
       /\ k + Len(q) - 1 <= Len(s)
       /\ \A j \in 1..Len(q) : Lower(q[j]) = Lower(s[k + j - 1])

\* C1 (as stated): get_product with a malformed id answers 400 "invalid id"
\* in every state of the store, reachable or not.
C1_InvalidIdAlways400 ==
    (resp.op = "get_product" /\ ~IsValidObjectId(resp.product_id))
        => resp.status = 400

\* C1 (amended): get_product with a malformed id answers 400 when the store
\* is reachable and 503 when it is not; it never answers 404.
C1_InvalidIdNever404 ==
    (resp.op = "get_product" /\ ~IsValidObjectId(resp.product_id))
        => /\ resp.status = (IF db THEN 400 ELSE 503)
           /\ resp.status # 404

C1_Witness ==
    /\ resp.op = "get_product"
    /\ ~IsValidObjectId(resp.product_id)
    /\ Len(resp.product_id) = OidHexLen
    /\ db
    /\ Seeded
    /\ resp.status = 400

C3_RecommendationsExcludeSelf ==
    (resp.op = "recommendations" /\ resp.status = 200)
        => /\ ValidLimit(RecLimitMax)
           /\ Len(resp.body) <= resp.limit
           /\ resp.body # <<>> =>
                 /\ IsValidObjectId(resp.product_id)
                 /\ Len(Stored(resp.product_id)) = 1
                 /\ \A i \in 1..Len(resp.body) :
                       /\ IsValidObjectId(resp.body[i].id)
                       /\ ObjectId(resp.body[i].id) # ObjectId(resp.product_id)
                       /\ resp.body[i].id # resp.product_id
                       /\ resp.body[i].category = Stored(resp.product_id)[1].category

\* the limit cuts the result short: three products share the category
C3_Witness ==
    /\ resp.op = "recommendations"
    /\ resp.status = 200
    /\ Len(resp.body) = 1
    /\ resp.limit = 1
    /\ Len(Stored(resp.product_id)) = 1
    /\ Cardinality({i \in 1..Len(product) :
                       product[i].category = Stored(resp.product_id)[1].category}) = 3

\* C4: recommendations never answers with an error: with a valid limit the
\* status is 200, and the body is empty whenever a store call raised.
C4_RecommendationsNeverError ==
    (resp.op = "recommendations" /\ ValidLimit(RecLimitMax))
        => /\ resp.status = 200
           /\ resp.failed => resp.body = <<>>

\* C5 (as stated): a second run of the seed leaves the number of records
\* the first run left.
C5_SecondRunSameCount ==
    (resp.op = "seed" /\ runs >= 2) => Len(product) = resp.before

\* C5 (amended): a second run of the seed leaves the number of records the
\* first run left whenever the first run left the collection non-empty: a
\* run that finds the collection non-empty inserts nothing.
C5_SecondRunSameCountIfNonEmpty ==
    (resp.op = "seed" /\ runs >= 2 /\ resp.before > 0)
        => Len(product) = resp.before /\ nextOid = FirstOid + Len(product)

\* the second run follows a first run that seeded the collection
C5_Witness ==
    /\ resp.op = "seed"
    /\ runs = 2
    /\ db
    /\ resp.before > 0
    /\ resp.queries = 1
    /\ product[1].title = SAMPLE_PRODUCTS[1].title

\* C6: the seed never raises; with db None it issues no store call and
\* leaves the collection alone.
C6_SeedNeverRaises ==
    resp.op = "seed"
        => /\ ~resp.raised
           /\ ~db => (resp.queries = 0 /\ Len(product) = resp.before)

\* an insert failed part-way and the seed returned normally
C6_Witness ==
    /\ resp.op = "seed"
    /\ db
    /\ resp.before = 0
    /\ Len(product) \in 1..(Len(SAMPLE_PRODUCTS) - 1)
    /\ ~resp.raised

\* C7 (as stated): on the seeded collection featured_products with the
\* default limit returns exactly Nova X Pro and AirLite Case.
C7_FeaturedIsTwo ==
    (/\ resp.op = "featured_products"
     /\ resp.limit = FeaturedLimitDefault
     /\ resp.status = 200
     /\ db
     /\ Seeded)
        => /\ Len(resp.body) = 2
           /\ Titles(resp.body) = {Title_NovaXPro, Title_AirLiteCase}

\* C7 (amended): on the seeded collection featured_products with the default
\* limit returns exactly the three records whose featured is true: Nova X
\* Pro, AirLite Case and Atlas 15.
C7_FeaturedIsThree ==
    (/\ resp.op = "featured_products"
     /\ resp.limit = FeaturedLimitDefault
     /\ resp.status = 200
     /\ db
     /\ Seeded)
        => /\ Len(resp.body) = 3
           /\ Titles(resp.body) = {Title_NovaXPro, Title_AirLiteCase, Title_Atlas15}
           /\ \A i \in 1..Len(resp.body) : resp.body[i].featured

C7_Witness ==
    /\ resp.op = "featured_products"
    /\ resp.limit = FeaturedLimitDefault
    /\ resp.status = 200
    /\ db
    /\ Seeded
    /\ Len(resp.body) = 3

\* C8 (as stated): list_products with limit in 1..100 returns at most limit
\* products, all in the given category whenever a category is given; a limit
\* outside 1..100 is rejected without a store read.
C8_ListMatchesAnyGivenCategory ==
    resp.op = "list_products"
        => /\ (ValidLimit(ListLimitMax) /\ resp.status = 200)
                 => /\ Len(resp.body) <= resp.limit
                    /\ resp.category # <<>> =>
                          \A i \in 1..Len(resp.body) :
                             resp.body[i].category = resp.category[1]
           /\ ~ValidLimit(ListLimitMax) => (resp.status = 422 /\ resp.queries = 0)

\* C8 (amended): list_products with limit in 1..100 returns at most limit
\* products, all in the given category whenever a non-empty category is
\* given (an empty category string is no filter); a limit outside 1..100 is
\* rejected without a store read.
C8_ListMatchesNonEmptyCategory ==
    resp.op = "list_products"
        => /\ (ValidLimit(ListLimitMax) /\ resp.status = 200)
                 => /\ Len(resp.body) <= resp.limit
                    /\ (resp.category # <<>> /\ resp.category[1] # "") =>
                          \A i \in 1..Len(resp.body) :
                             resp.body[i].category = resp.category[1]
           /\ ~ValidLimit(ListLimitMax) => (resp.status = 422 /\ resp.queries = 0)

\* the limit cuts a category listing short
C8_Witness ==
    /\ resp.op = "list_products"
    /\ resp.status = 200
    /\ resp.category = <<"Phone Cases">>
    /\ resp.limit = 2
    /\ Len(resp.body) = 2
    /\ Cardinality({i \in 1..Len(product) : product[i].category = "Phone Cases"}) = 3

\* C9: search_products with an empty q answers 200 with an empty body and
\* issues no store query; with a non-empty q every returned title contains
\* q, ignoring case.
C9_SearchContainsQuery ==
    (resp.op = "search_products" /\ ValidLimit(ListLimitMax))
        => /\ resp.q = <<>> =>
                 (resp.status = 200 /\ resp.body = <<>> /\ resp.queries = 0)
           /\ (resp.q # <<>> /\ resp.status = 200) =>
                 \A i \in 1..Len(resp.body) : Contains(resp.body[i].title, resp.q)

\* C10: a seed that starts from an empty reachable collection never leaves
\* a non-empty proper subset of the sample records behind.
C10_SeedAllOrNothing ==
    (resp.op = "seed" /\ db /\ resp.before = 0)
        => Len(product) \notin 1..(Len(SAMPLE_PRODUCTS) - 1)
====
